---- MODULE Spec2Model ----
(***************************************************************************)
(* A model of bevy_svg_map: the style model (src/src/style.rs), the        *)
(* extraction layer and the document loaders (src/src/lib.rs) and the      *)
(* tessellation wrappers (src/src/lyon_utils.rs).                          *)
(*                                                                         *)
(* Strings are sequences of lexical atoms.  An atom is a TLA+ string that  *)
(* stands for a run of characters no scanner of the program cuts: the      *)
(* delimiters ";", ":", ",", the sign and the dot, and every decimal digit *)
(* are atoms of their own; a property name ("stroke-width"), a colour      *)
(* literal ("#000000") or a unit ("px") is one atom.  Two strings are      *)
(* equal exactly when their atom sequences are.                            *)
(*                                                                         *)
(* Numbers (f32/f64 in the program) are exact decimals held as integers in *)
(* millionths: 0.264583 is 264583.  Every literal the model draws has at   *)
(* most six fractional digits, so the conversion loses nothing.            *)
(***************************************************************************)
EXTENDS Integers, Sequences, FiniteSets, TLC

VARIABLES
    text,       \* the style string handed to SvgStyle::from
    style,      \* the SvgStyle built from it, or the fault of building it
    ret,        \* the last accessor call on the style and what it returned
    pc,         \* where the caller of the style model stands
    doc,        \* the parsed SVG document a loader is given
    entry,      \* the function of lib.rs that was called, with its strategy
    lpc,        \* where that call stands
    result,     \* what the call returned, or the panic that ended it
    extent,     \* (x_max, y_max) as max_coords returned it to the loader
    idx,        \* the segment the loader's loop is at
    world,      \* the entities spawned through Commands, in spawn order
    kids        \* the children of the parent entity of load_svg

styleVars == <<text, style, ret, pc>>
docVars == <<doc, entry, lpc, result, extent, idx, world, kids>>
vars == <<text, style, ret, pc, doc, entry, lpc, result, extent, idx, world, kids>>

----------------------------------------------------------------------------
(* Bounds of the model *)

\* longest style string (in atoms) drawn over StyleAlphabet
MaxLen == 4
\* most "key:value" pairs joined into a drawn style string
MaxPairs == 2
\* largest integer part of a drawn opacity literal d.dd
MaxUnits == 1
\* most nodes of a drawn document, its root element included
MaxNodes == 3

----------------------------------------------------------------------------
(* Results: Option / Result / panic *)

None == [tag |-> "None"]
Some(v) == [tag |-> "Some", val |-> v]
Ok(v) == [tag |-> "Ok", val |-> v]
Err(e) == [tag |-> "Err", err |-> e]
Panic(m) == [tag |-> "Panic", msg |-> m]

IsPanic(r) == r.tag = "Panic"

Min(a, b) == IF a <= b THEN a ELSE b
Max(a, b) == IF a >= b THEN a ELSE b
Abs(a) == IF a < 0 THEN -a ELSE a

----------------------------------------------------------------------------
(* str::split and Iterator::take *)

\* the pieces of s between the occurrences of delim: never empty, a string
\* without delim (the empty string too) is its own single piece
RECURSIVE split(_, _)
split(s, delim) ==
    IF \A i \in 1..Len(s) : s[i] # delim
    THEN <<s>>
    ELSE LET i == CHOOSE k \in 1..Len(s) :
                     s[k] = delim /\ \A j \in 1..(k - 1) : s[j] # delim
         IN  <<SubSeq(s, 1, i - 1)>> \o split(SubSeq(s, i + 1, Len(s)), delim)

take(q, n) == SubSeq(q, 1, Min(n, Len(q)))

----------------------------------------------------------------------------
(* HashMap<String, String> *)

EmptyMap == [k \in {} |-> <<>>]

HashMap_insert(m, k, v) ==
    [x \in (DOMAIN m) \cup {k} |-> IF x = k THEN v ELSE m[x]]

HashMap_get(m, k) == IF k \in DOMAIN m THEN Some(m[k]) ELSE None

\* Iterator::collect::<HashMap>: the pairs inserted in order, a later pair
\* replacing an earlier one of the same key
RECURSIVE collect(_)
collect(pairs) ==
    IF pairs = <<>>
    THEN EmptyMap
    ELSE LET n == Len(pairs)
         IN  HashMap_insert(collect(SubSeq(pairs, 1, n - 1)),
                            pairs[n][1], pairs[n][2])

----------------------------------------------------------------------------
(* impl From<&str> for SvgStyle *)

\* the closure of the map: a = n.split(':').take(2); (a[0], a[1])
PairOf(n) == take(split(n, ":"), 2)

\* a[1] on a piece without ':' indexes past the end of a: the construction
\* panics
SvgStyle_from(s) ==
    LET segs == split(s, ";")
        a == [i \in 1..Len(segs) |-> PairOf(segs[i])]
    IN  IF \E i \in 1..Len(a) : Len(a[i]) < 2
        THEN Panic(<<"index out of bounds">>)
        ELSE Ok(collect(a))

----------------------------------------------------------------------------
(* Decimal literals: str::parse::<f32> and the number scanner of svgtypes *)

Micro == 1000 * 1000

Digits == {"0", "1", "2", "3", "4", "5", "6", "7", "8", "9"}

DigitVal(c) ==
    CASE c = "0" -> 0 [] c = "1" -> 1 [] c = "2" -> 2 [] c = "3" -> 3
      [] c = "4" -> 4 [] c = "5" -> 5 [] c = "6" -> 6 [] c = "7" -> 7
      [] c = "8" -> 8 [] c = "9" -> 9

IsDigits(q) == \A i \in 1..Len(q) : q[i] \in Digits

RECURSIVE DigitsVal(_)
DigitsVal(q) ==
    IF q = <<>> THEN 0
    ELSE 10 * DigitsVal(SubSeq(q, 1, Len(q) - 1)) + DigitVal(q[Len(q)])

RECURSIVE Pow10(_)
Pow10(k) == IF k = 0 THEN 1 ELSE 10 * Pow10(k - 1)

\* the digits after the dot, in millionths
FracVal(q) == DigitsVal(take(q, 6)) * Pow10(6 - Min(6, Len(q)))

\* [sign] digits [ "." digits ], with a digit somewhere; anything else is an
\* error.  Ok carries the value in millionths.
ParseDecimal(s) ==
    LET signed == s # <<>> /\ s[1] \in {"+", "-"}
        body == IF signed THEN Tail(s) ELSE s
        parts == split(body, ".")
        sign == IF signed /\ s[1] = "-" THEN -1 ELSE 1
    IN  IF \/ Len(parts) > 2
           \/ \E i \in 1..Len(parts) : ~IsDigits(parts[i])
           \/ \A i \in 1..Len(parts) : parts[i] = <<>>
        THEN Err("invalid number")
        ELSE Ok(sign * (DigitsVal(parts[1]) * Micro
                        + (IF Len(parts) = 2 THEN FracVal(parts[2]) ELSE 0)))

\* c.parse::<f32>()
str_parse_f32(c) == ParseDecimal(c)

LengthUnits == {"%", "em", "ex", "px", "in", "cm", "mm", "pt", "pc"}

\* svgtypes::Length::from_str: a number and an optional unit, nothing after
Length_from_str(c) ==
    LET unit == IF c # <<>> /\ c[Len(c)] \in LengthUnits THEN c[Len(c)] ELSE "none"
        digits == IF unit = "none" THEN c ELSE SubSeq(c, 1, Len(c) - 1)
        n == ParseDecimal(digits)
    IN  IF n.tag = "Ok" THEN Ok([num |-> n.val, unit |-> unit]) ELSE n

\* svgtypes::NumberList::from_str: numbers separated by commas
NumberList_from_str(c) ==
    LET parts == split(c, ",")
        nums == [i \in 1..Len(parts) |-> ParseDecimal(parts[i])]
    IN  IF c = <<>> THEN Ok(<<>>)
        ELSE IF \E i \in 1..Len(nums) : nums[i].tag = "Err"
        THEN Err("invalid number")
        ELSE Ok([i \in 1..Len(nums) |-> nums[i].val])

----------------------------------------------------------------------------
(* Exact naturals beyond the machine word: little-endian digits to BigBase *)

BigBase == 10 * 10 * 10

RECURSIVE MulCarry(_, _, _, _)
MulCarry(b, k, i, carry) ==
    IF i > Len(b)
    THEN IF carry = 0 THEN <<>>
         ELSE <<carry % BigBase>> \o MulCarry(b, k, i, carry \div BigBase)
    ELSE LET t == b[i] * k + carry
         IN  <<t % BigBase>> \o MulCarry(b, k, i + 1, t \div BigBase)

\* b * k for 1 <= k <= 2 * Micro
BigMulSmall(b, k) == MulCarry(b, k, 1, 0)

\* b * k^e
RECURSIVE BigMulPow(_, _, _)
BigMulPow(b, k, e) == IF e = 0 THEN b ELSE BigMulPow(BigMulSmall(b, k), k, e - 1)

BigGeq(a, b) ==
    IF Len(a) # Len(b) THEN Len(a) > Len(b)
    ELSE LET D == {i \in 1..Len(a) : a[i] # b[i]}
         IN  D = {} \/ LET m == CHOOSE m \in D : \A j \in D : j <= m
                       IN  a[m] > b[m]

----------------------------------------------------------------------------
(* linear_to_nonlinear_srgb *)

\* (x as u8) for x = numer / denom, denom > 0: towards zero, saturating
as_u8(numer, denom) ==
    IF numer <= 0 THEN 0
    ELSE IF numer \div denom > 255 THEN 255
    ELSE numer \div denom

\* 255 * (1.055 * o^(1/2.4) - 0.055) >= a for o = num / Micro > 0.
\* With y = o^(1/2.4): 269.025 * y - 14.025 >= a, y >= (40a + 561) / 10761,
\* and y^12 = o^5, so the test is  num^5 * 10761^12 >= (40a + 561)^12 * Micro^5.
GammaLhs(num) == BigMulPow(BigMulPow(<<1>>, 10761, 12), num, 5)
GammaRhs(a) == BigMulPow(BigMulPow(<<1>>, 40 * a + 561, 12), Micro, 5)

\* the largest a in lo..hi with the gamma curve at or above a
RECURSIVE GammaSearch(_, _, _)
GammaSearch(lhs, lo, hi) ==
    IF lo = hi THEN lo
    ELSE LET mid == (lo + hi + 1) \div 2
         IN  IF BigGeq(lhs, GammaRhs(mid))
             THEN GammaSearch(lhs, mid, hi)
             ELSE GammaSearch(lhs, lo, mid - 1)

\* ((1.055 * num.powf(1.0 / 2.4) - 0.055) * 255.0) as u8
GammaCurve(num) == GammaSearch(GammaLhs(num), 0, 255)

\* the transfer curve left out: the opacity scaled linearly
linear_scaling(num) == as_u8(num * 255, Micro)

\* num in millionths; 0.99 is 990000 and 0.0031308 is 3130.8 millionths
linear_to_nonlinear_srgb(num) ==
    IF num <= 0 \/ num >= 990000
    THEN as_u8(num * 255, Micro)
    ELSE IF num * 10 <= 31308
    THEN as_u8(num * 1292 * 255, 100 * Micro)
    ELSE GammaCurve(num)

----------------------------------------------------------------------------
(* to_color *)

Rgb(r, g, b) == [red |-> r, green |-> g, blue |-> b]

\* svgtypes::Paint::from_str on the colour literals the model draws
Paint_from_str(color) ==
    CASE color = <<"#000000">> -> Ok([paint |-> "Color", color |-> Rgb(0, 0, 0)])
      [] color = <<"#ff0000">> -> Ok([paint |-> "Color", color |-> Rgb(255, 0, 0)])
      [] color = <<"#00ff00">> -> Ok([paint |-> "Color", color |-> Rgb(0, 255, 0)])
      [] color = <<"red">> -> Ok([paint |-> "Color", color |-> Rgb(255, 0, 0)])
      [] color = <<"none">> -> Ok([paint |-> "None"])
      [] color = <<"currentColor">> -> Ok([paint |-> "CurrentColor"])
      [] OTHER -> Err("invalid paint")

Rgba(c, a) == [red |-> c.red, green |-> c.green, blue |-> c.blue, alpha |-> a]

to_color(color, opacity) ==
    LET p == Paint_from_str(color)
    IN  IF p.tag = "Ok" /\ p.val.paint = "Color"
        THEN Some(Rgba(p.val.color, opacity))
        ELSE None

----------------------------------------------------------------------------
(* impl SvgStyle: the accessors, on the map m of a built style *)

MissingField(key) ==
    <<"Field ">> \o key
        \o <<" (used to build svg-based components) is missing! Check your SVG file">>

\* a missing field answered with a guess instead of a fault
panic_access_or_guess(m, key) ==
    IF key \in DOMAIN m THEN Ok(m[key]) ELSE Ok(<<"none">>)

panic_access(m, key) ==
    IF key \in DOMAIN m THEN Ok(m[key]) ELSE Panic(MissingField(key))

stroke_opacity(m) ==
    LET c == HashMap_get(m, <<"stroke-opacity">>)
    IN  IF c.tag = "Some" THEN str_parse_f32(c.val) ELSE Ok(Micro)

fill_opacity(m) ==
    LET c == HashMap_get(m, <<"fill-opacity">>)
    IN  IF c.tag = "Some" THEN str_parse_f32(c.val) ELSE Ok(Micro)

\* match opacity { Ok(c) => linear_to_nonlinear_srgb(c), _ => 255 }
AlphaOf(opacity) ==
    IF opacity.tag = "Ok" THEN linear_to_nonlinear_srgb(opacity.val) ELSE 255

\* the stroke colour built with the opacity of the fill
stroke_with_fill_opacity(m) ==
    LET c == panic_access(m, <<"stroke">>)
    IN  IF IsPanic(c) THEN c ELSE to_color(c.val, AlphaOf(fill_opacity(m)))

stroke(m) ==
    LET c == panic_access(m, <<"stroke">>)
    IN  IF IsPanic(c) THEN c ELSE to_color(c.val, AlphaOf(stroke_opacity(m)))

fill(m) ==
    LET c == panic_access(m, <<"fill">>)
    IN  IF IsPanic(c) THEN c ELSE to_color(c.val, AlphaOf(fill_opacity(m)))

stroke_dasharray(m) ==
    LET c == HashMap_get(m, <<"stroke-dasharray">>)
    IN  IF c.tag = "Some"
        THEN LET l == NumberList_from_str(c.val)
             IN  IF l.tag = "Ok" THEN Some(l.val)
                 ELSE Panic(<<"called Result::unwrap on an Err value">>)
        ELSE None

stroke_width(m) ==
    LET c == panic_access(m, <<"stroke-width">>)
    IN  IF IsPanic(c) THEN c
        ELSE LET l == Length_from_str(c.val)
             IN  IF l.tag = "Ok" THEN Some(l.val.num) ELSE None

stroke_linecap(m) ==
    LET c == HashMap_get(m, <<"stroke-linecap">>)
    IN  IF c.tag = "Some"
        THEN CASE c.val = <<"butt">> -> Some("Butt")
               [] c.val = <<"round">> -> Some("Round")
               [] c.val = <<"square">> -> Some("Square")
               [] OTHER -> None
        ELSE None

stroke_linejoin(m) ==
    LET c == HashMap_get(m, <<"stroke-linejoin">>)
    IN  IF c.tag = "Some"
        THEN CASE c.val = <<"butt">> -> Some("Bevel")
               [] c.val = <<"miter">> -> Some("Miter")
               [] c.val = <<"miterclip">> -> Some("MiterClip")
               [] c.val = <<"round">> -> Some("Round")
               [] OTHER -> None
        ELSE None

----------------------------------------------------------------------------
(* impl Default for SvgStyle *)

DefaultStyleText ==
    <<"fill", ":", "none", ";", "stroke", ":", "#000000", ";",
      "stroke-width", ":", "0", ".", "2", "6", "4", "5", "8", "3", "px", ";",
      "stroke-linecap", ":", "butt", ";", "stroke-linejoin", ":", "miter", ";",
      "stroke-opacity", ":", "1">>

----------------------------------------------------------------------------
(* The style strings the callers hand in *)

\* every string of at most n atoms over S
SeqsUpTo(S, n) == UNION {[1..k -> S] : k \in 0..n}

StyleAlphabet == {"fill", "none", ":", ";"}

ColourValues == {<<"#000000">>, <<"#ff0000">>, <<"none">>, <<"red">>, <<"nocolour">>}

OpacityValues == {<<"1">>, <<"1", ".", "0">>, <<"0", ".", "5">>, <<"o">>}

WidthValues ==
    {<<"0", ".", "2", "6", "4", "5", "8", "3", "px">>, <<"2">>,
     <<"1", ".", "5", "mm">>, <<"thin">>}

LinecapValues == {<<"butt">>, <<"round">>, <<"square">>, <<"bevel">>}

LinejoinValues ==
    {<<"miter">>, <<"round">>, <<"bevel">>, <<"miter-clip">>, <<"butt">>,
     <<"miterclip">>, <<"arcs">>}

DasharrayValues == {<<"3", ",", "1">>}

Pairs(key, values) == {<<key, ":">> \o v : v \in values}

PairPool ==
    Pairs("stroke", ColourValues) \cup Pairs("fill", {<<"none">>, <<"#00ff00">>})
        \cup Pairs("stroke-opacity", OpacityValues)
        \cup Pairs("fill-opacity", {<<"0", ".", "5">>})
        \cup Pairs("stroke-width", WidthValues)
        \cup Pairs("stroke-linecap", LinecapValues)
        \cup Pairs("stroke-linejoin", LinejoinValues)
        \cup Pairs("stroke-dasharray", DasharrayValues)

\* k pairs joined by ';'
RECURSIVE Joined(_)
Joined(k) ==
    IF k = 1 THEN PairPool
    ELSE {s \o <<";">> \o p : s \in Joined(k - 1), p \in PairPool}

\* the literals u.dd with u <= MaxUnits
OpacityLiterals ==
    {<<u, ".", d1, d2>> : u \in {d \in Digits : DigitVal(d) <= MaxUnits},
                           d1 \in Digits, d2 \in Digits}

OpacityStyles ==
    {<<"stroke", ":", "#ff0000", ";", "stroke-opacity", ":">> \o o :
        o \in OpacityLiterals \cup {<<"0", ".", "0", "0", "2">>, <<"-", "1">>}}

StyleTexts ==
    SeqsUpTo(StyleAlphabet, MaxLen) \cup UNION {Joined(k) : k \in 1..MaxPairs}
        \cup OpacityStyles \cup {DefaultStyleText}

----------------------------------------------------------------------------
(* The caller of the style model: builds a style, then queries it *)

NoCall == [fn |-> "none", out |-> None]

NoDoc == [root |-> None, nodes |-> <<>>]

Init ==
    /\ text \in StyleTexts
    /\ style = [tag |-> "Unbuilt"]
    /\ ret = NoCall
    /\ pc = "new"
    /\ doc = NoDoc
    /\ entry = "none"
    /\ lpc = "off"
    /\ result = None
    /\ extent = <<0, 0>>
    /\ idx = 0
    /\ world = <<>>
    /\ kids = <<>>

\* SvgStyle::from(text)
Construct ==
    /\ pc = "new"
    /\ style' = SvgStyle_from(text)
    /\ pc' = IF IsPanic(style') THEN "panicked" ELSE "built"
    /\ UNCHANGED <<text, ret>>
    /\ UNCHANGED docVars

\* one accessor call on the built style; a panic ends the caller
Call(fn, out) ==
    /\ pc = "built"
    /\ ret' = [fn |-> fn, out |-> out]
    /\ pc' = IF IsPanic(out) THEN "panicked" ELSE "built"
    /\ UNCHANGED <<text, style>>
    /\ UNCHANGED docVars

CallStroke == Call("stroke", stroke(style.val))
CallFill == Call("fill", fill(style.val))
CallStrokeOpacity == Call("stroke_opacity", stroke_opacity(style.val))
CallFillOpacity == Call("fill_opacity", fill_opacity(style.val))
CallStrokeWidth == Call("stroke_width", stroke_width(style.val))
CallStrokeLinecap == Call("stroke_linecap", stroke_linecap(style.val))
CallStrokeLinejoin == Call("stroke_linejoin", stroke_linejoin(style.val))
CallStrokeDasharray == Call("stroke_dasharray", stroke_dasharray(style.val))

Next ==
    \/ Construct
    \/ CallStroke
    \/ CallFill
    \/ CallStrokeOpacity
    \/ CallFillOpacity
    \/ CallStrokeWidth
    \/ CallStrokeLinecap
    \/ CallStrokeLinejoin
    \/ CallStrokeDasharray

Spec == Init /\ [][Next]_vars

----------------------------------------------------------------------------
(* What the style strings say, read off the text alone *)

Segments(s) == split(s, ";")

HasColon(seg) == \E i \in 1..Len(seg) : seg[i] = ":"

FirstColon(seg) ==
    CHOOSE i \in 1..Len(seg) : seg[i] = ":" /\ \A j \in 1..(i - 1) : seg[j] # ":"

\* the text before the first ':' of a pair, and the raw text after it
KeyText(seg) == SubSeq(seg, 1, FirstColon(seg) - 1)
ValueText(seg) == SubSeq(seg, FirstColon(seg) + 1, Len(seg))

\* k1:v1;k2:v2;... with every pair holding a ':' after a key, and no key twice
WellFormedStyle(s) ==
    LET segs == Segments(s)
    IN  /\ \A i \in 1..Len(segs) : HasColon(segs[i]) /\ KeyText(segs[i]) # <<>>
        /\ \A i, j \in 1..Len(segs) :
               KeyText(segs[i]) = KeyText(segs[j]) => i = j

Built == style.tag = "Ok"

Queried(fn) == ret.fn = fn

Has(key) == <<key>> \in DOMAIN style.val

----------------------------------------------------------------------------
(* C1: constructing an SvgStyle from any style string never fails: every   *)
(* input, one with an empty or colon-less segment included, yields a map.  *)
C1_ConstructionNeverFails == pc # "new" => style.tag = "Ok"

(* C2: for every well-formed style string the built style holds every key, *)
(* and under it exactly the raw text that followed the first ':' of its    *)
(* pair, a value that itself contains ':' kept whole.                      *)
C2_RawValueRoundTrips ==
    (pc # "new" /\ WellFormedStyle(text)) =>
        /\ Built
        /\ \A i \in 1..Len(Segments(text)) :
               LET seg == Segments(text)[i]
               IN  /\ KeyText(seg) \in DOMAIN style.val
                   /\ style.val[KeyText(seg)] = ValueText(seg)

(* C3: stroke() on a style without a 'stroke' key, and fill() on a style   *)
(* without a 'fill' key, is a fault that halts the caller with the         *)
(* missing-field message naming the key; no colour and no absent value is  *)
(* returned.                                                               *)
C3_MissingColourKeyFaults ==
    \A key \in {"stroke", "fill"} :
        (Queried(key) /\ ~Has(key)) =>
            /\ ret.out.tag = "Panic"
            /\ ret.out.msg = MissingField(<<key>>)
            /\ \E i \in 1..Len(ret.out.msg) : ret.out.msg[i] = key
            /\ pc = "panicked"

C3_Witness ==
    /\ Queried("stroke") /\ Has("fill") /\ ~Has("stroke")
    /\ ret.out.tag = "Panic"

(* C4: an optional key that is missing makes its accessor return absent    *)
(* (1.0 for the two opacities) and never fault; stroke_width() on a style  *)
(* without 'stroke-width' returns absent.                                  *)
OptionalAccessors ==
    {<<"stroke_opacity", "stroke-opacity", Ok(Micro)>>,
     <<"fill_opacity", "fill-opacity", Ok(Micro)>>,
     <<"stroke_width", "stroke-width", None>>,
     <<"stroke_linecap", "stroke-linecap", None>>,
     <<"stroke_linejoin", "stroke-linejoin", None>>,
     <<"stroke_dasharray", "stroke-dasharray", None>>}

C4_MissingOptionalKeyIsAbsent ==
    \A acc \in OptionalAccessors :
        (Queried(acc[1]) /\ ~Has(acc[2])) => (ret.out = acc[3] /\ pc = "built")

(* C5: stroke_linecap() maps butt, round, square to Butt, Round, Square;   *)
(* stroke_linejoin() maps miter, round, bevel, miter-clip to Miter, Round, *)
(* Bevel, MiterClip; any other literal and a missing key give absent.      *)
LineCapOf(lit) ==
    CASE lit = <<"butt">> -> Some("Butt")
      [] lit = <<"round">> -> Some("Round")
      [] lit = <<"square">> -> Some("Square")
      [] OTHER -> None

LineJoinOf(lit) ==
    CASE lit = <<"miter">> -> Some("Miter")
      [] lit = <<"round">> -> Some("Round")
      [] lit = <<"bevel">> -> Some("Bevel")
      [] lit = <<"miter-clip">> -> Some("MiterClip")
      [] OTHER -> None

C5_CapAndJoinLiterals ==
    /\ Queried("stroke_linecap") =>
           ret.out = IF Has("stroke-linecap")
                     THEN LineCapOf(style.val[<<"stroke-linecap">>]) ELSE None
    /\ Queried("stroke_linejoin") =>
           ret.out = IF Has("stroke-linejoin")
                     THEN LineJoinOf(style.val[<<"stroke-linejoin">>]) ELSE None

(* C6: with a parseable colour literal under 'stroke' and a stroke-opacity *)
(* of 1 or none, stroke() is that colour with alpha 255; stroke_width() is *)
(* the magnitude of 'stroke-width', its unit ignored; the default style    *)
(* gives black at alpha 255 and the width 0.264583.                        *)
ColourLiterals ==
    {<<<<"#000000">>, Rgb(0, 0, 0)>>, <<<<"#ff0000">>, Rgb(255, 0, 0)>>,
     <<<<"red">>, Rgb(255, 0, 0)>>}

FullOpacityLiterals == {<<"1">>, <<"1", ".", "0">>, <<"1", ".", "0", "0">>}

\* millionths
WidthLiterals ==
    {<<<<"0", ".", "2", "6", "4", "5", "8", "3", "px">>, 264583>>,
     <<<<"2">>, 2000000>>, <<<<"1", ".", "5", "mm">>, 1500000>>}

C6_OpaqueStrokeAndWidth ==
    /\ \A lit \in ColourLiterals :
           ( /\ Queried("stroke") /\ Has("stroke")
             /\ style.val[<<"stroke">>] = lit[1]
             /\ Has("stroke-opacity") =>
                    style.val[<<"stroke-opacity">>] \in FullOpacityLiterals )
           => ret.out = Some(Rgba(lit[2], 255))
    /\ \A lit \in WidthLiterals :
           ( /\ Queried("stroke_width") /\ Has("stroke-width")
             /\ style.val[<<"stroke-width">>] = lit[1] )
           => ret.out = Some(lit[2])
    /\ (text = DefaultStyleText /\ Queried("stroke")) =>
           ret.out = Some([red |-> 0, green |-> 0, blue |-> 0, alpha |-> 255])
    /\ (text = DefaultStyleText /\ Queried("stroke_width")) =>
           ret.out = Some(264583)

C6_Witness ==
    /\ text = DefaultStyleText /\ Queried("stroke")
    /\ ret.out.tag = "Some" /\ ret.out.val.alpha = 255

(* C7: the alpha channel stroke()/fill() write for an opacity o is the     *)
(* piecewise transfer of o scaled by 255 and cut to an 8-bit channel: o    *)
(* itself for o <= 0 or o >= 0.99, 12.92*o for o <= 0.0031308, otherwise   *)
(* 1.055*o^(1/2.4) - 0.055; for o = 0.5 it is the gamma-corrected 187, not *)
(* the linear 127.                                                         *)

\* a = trunc(numer / denom), held to 0..255
IsChannelOf(a, numer, denom) ==
    \/ numer <= 0 /\ a = 0
    \/ numer >= 255 * denom /\ a = 255
    \/ /\ 0 < numer /\ numer < 255 * denom
       /\ a * denom <= numer /\ numer < (a + 1) * denom

\* a <= 255 * (1.055 * o^(1/2.4) - 0.055) < a + 1
IsGammaChannelOf(a, o) ==
    /\ BigGeq(GammaLhs(o), GammaRhs(a))
    /\ ~BigGeq(GammaLhs(o), GammaRhs(a + 1))

IsTransferOf(a, o) ==
    /\ a \in 0..255
    /\ IF o <= 0 \/ o >= 990000 THEN IsChannelOf(a, o * 255, Micro)
       \* 12.92 * 255 = 3294.6 = 16473 / 5
       ELSE IF 10 * o <= 31308 THEN IsChannelOf(a, o * 16473, 5 * Micro)
       ELSE IsGammaChannelOf(a, o)

C7_AlphaFollowsTransfer ==
    \A acc \in {<<"stroke", "stroke-opacity">>, <<"fill", "fill-opacity">>} :
        ( /\ Queried(acc[1]) /\ ret.out.tag = "Some" /\ Has(acc[2])
          /\ ParseDecimal(style.val[<<acc[2]>>]).tag = "Ok" )
        => LET o == ParseDecimal(style.val[<<acc[2]>>]).val
           IN  /\ IsTransferOf(ret.out.val.alpha, o)
               /\ o = 500000 =>
                      (ret.out.val.alpha = 187 /\ ret.out.val.alpha # 127)

C7_Witness ==
    /\ Queried("stroke") /\ ret.out.tag = "Some" /\ Has("stroke-opacity")
    /\ style.val[<<"stroke-opacity">>] = <<"0", ".", "5", "0">>
    /\ ret.out.val.alpha = 187

----------------------------------------------------------------------------
(* The parsed document (roxmltree::Document)                               *)
(*                                                                         *)
(* nodes[1] is the <svg> element; nodes[k].parent < k is the element that  *)
(* holds nodes[k], and the children of an element stand in index order.    *)
(* An attribute is Some(string) or None.  Path data is held lexed: a       *)
(* sequence of command letters and numbers.                                *)

Cmd(c) == [t |-> "cmd", c |-> c]
Num(v) == [t |-> "num", v |-> v]

\* Walk(d, k, j): the subtrees of the children of k with index >= j, each in
\* document order
RECURSIVE Walk(_, _, _)
Walk(d, k, j) ==
    IF j > Len(d.nodes) THEN <<>>
    ELSE IF d.nodes[j].parent = k
         THEN <<j>> \o Walk(d, j, j + 1) \o Walk(d, k, j + 1)
         ELSE Walk(d, k, j + 1)

\* doc.descendants(): the root element, then everything below it, depth first
descendants(d) == IF d.nodes = <<>> THEN <<>> ELSE <<1>> \o Walk(d, 1, 2)

\* an unwrap() of a missing 'style' attribute panics
take_lines_with_style(d) ==
    LET HasD(k) == d.nodes[k].d.tag = "Some"
        ns == SelectSeq(descendants(d), HasD)
    IN  IF \E i \in 1..Len(ns) : d.nodes[ns[i]].style.tag = "None"
        THEN Panic(<<"called Option::unwrap on a None value">>)
        ELSE Ok([i \in 1..Len(ns) |->
                    <<d.nodes[ns[i]].style.val, d.nodes[ns[i]].d.val>>])

\* impl From<(&str, &str)> for StyleSegment
StyleSegment_from(tup) == [style |-> SvgStyle_from(tup[1]), traces |-> tup[2]]

\* the file is read and parsed into d before; every line becomes a segment,
\* and a style that cannot be built panics
tokenize_svg(d) ==
    LET lines == take_lines_with_style(d)
    IN  IF IsPanic(lines) THEN lines
        ELSE LET segs == [i \in 1..Len(lines.val) |-> StyleSegment_from(lines.val[i])]
             IN  IF \E i \in 1..Len(segs) : IsPanic(segs[i].style)
                 THEN Panic(<<"index out of bounds">>)
                 ELSE Ok([i \in 1..Len(segs) |->
                             [style |-> segs[i].style.val, traces |-> segs[i].traces]])

----------------------------------------------------------------------------
(* svgtypes::PathParser on lexed path data *)

Operands(c) ==
    CASE c \in {"M", "m", "L", "l"} -> 2
      [] c \in {"H", "h", "V", "v"} -> 1
      [] c \in {"C", "c"} -> 6
      [] c \in {"Q", "q"} -> 4
      [] c \in {"Z", "z"} -> 0

IsAbsolute(c) == c \in {"M", "L", "H", "V", "C", "Q", "Z"}

\* the segment of command letter c with operands a
PathSegment(c, a) ==
    CASE c \in {"M", "m"} ->
           [cmd |-> "MoveTo", abs |-> IsAbsolute(c), x |-> a[1], y |-> a[2]]
      [] c \in {"L", "l"} ->
           [cmd |-> "LineTo", abs |-> IsAbsolute(c), x |-> a[1], y |-> a[2]]
      [] c \in {"H", "h"} ->
           [cmd |-> "HorizontalLineTo", abs |-> IsAbsolute(c), x |-> a[1]]
      [] c \in {"V", "v"} ->
           [cmd |-> "VerticalLineTo", abs |-> IsAbsolute(c), y |-> a[1]]
      [] c \in {"C", "c"} ->
           [cmd |-> "CurveTo", abs |-> IsAbsolute(c), x1 |-> a[1], y1 |-> a[2],
            x2 |-> a[3], y2 |-> a[4], x |-> a[5], y |-> a[6]]
      [] c \in {"Q", "q"} ->
           [cmd |-> "Quadratic", abs |-> IsAbsolute(c), x1 |-> a[1], y1 |-> a[2],
            x |-> a[3], y |-> a[4]]
      [] c \in {"Z", "z"} -> [cmd |-> "ClosePath", abs |-> IsAbsolute(c)]

\* the results the iterator yields from token pos on, prev the letter of the
\* segment before ("" at the start).  A number where a letter is due repeats
\* the previous command (a MoveTo as a LineTo); the data must open with a
\* MoveTo; the first error is the last item.
RECURSIVE PathParser_next(_, _, _)
PathParser_next(ts, pos, prev) ==
    IF pos > Len(ts) THEN <<>>
    ELSE LET explicit == ts[pos].t = "cmd"
             c == IF explicit THEN ts[pos].c
                  ELSE IF prev = "M" THEN "L"
                  ELSE IF prev = "m" THEN "l"
                  ELSE prev
             from == IF explicit THEN pos + 1 ELSE pos
         IN  IF ~explicit /\ prev \in {"", "Z", "z"}
             THEN <<Err("unexpected data")>>
             ELSE IF prev = "" /\ c \notin {"M", "m"}
             THEN <<Err("the first segment must be MoveTo")>>
             ELSE IF \E i \in from..(from + Operands(c) - 1) :
                         i > Len(ts) \/ ts[i].t # "num"
             THEN <<Err("invalid number")>>
             ELSE <<Ok(PathSegment(c, [i \in 1..Operands(c) |-> ts[from + i - 1].v]))>>
                      \o PathParser_next(ts, from + Operands(c), c)

PathParser(traces) == PathParser_next(traces, 1, "")

\* PathSegment::x and PathSegment::y: the end point of the segment
PathSegment_x(n) ==
    IF n.cmd \in {"VerticalLineTo", "ClosePath"} THEN None ELSE Some(n.x)

PathSegment_y(n) ==
    IF n.cmd \in {"HorizontalLineTo", "ClosePath"} THEN None ELSE Some(n.y)

----------------------------------------------------------------------------
(* max_coords *)

\* the closure of the fold
MaxStep(acc, n) ==
    LET x == PathSegment_x(n)
        y == PathSegment_y(n)
    IN  <<IF x.tag = "Some" THEN Max(Abs(x.val), acc[1]) ELSE acc[1],
          IF y.tag = "Some" THEN Max(Abs(y.val), acc[2]) ELSE acc[2]>>

RECURSIVE Fold(_, _)
Fold(acc, q) == IF q = <<>> THEN acc ELSE Fold(MaxStep(acc, Head(q)), Tail(q))

RECURSIVE Flatten(_)
Flatten(qs) == IF qs = <<>> THEN <<>> ELSE Head(qs) \o Flatten(Tail(qs))

\* tokenize_svg(..).unwrap(), every parsed segment unwrapped, then the fold
max_coords(d) ==
    LET segs == tokenize_svg(d)
    IN  IF IsPanic(segs) THEN segs
        ELSE LET items == Flatten([i \in 1..Len(segs.val) |->
                                      PathParser(segs.val[i].traces)])
             IN  IF \E i \in 1..Len(items) : items[i].tag = "Err"
                 THEN Panic(<<"called Result::unwrap on an Err value">>)
                 ELSE Ok(Fold(<<0, 0>>, [i \in 1..Len(items) |-> items[i].val]))

\* the width and the height of the <svg> element, both unwrapped
max_coords_doc(d) ==
    IF d.root.width.tag = "None" \/ d.root.height.tag = "None"
    THEN Panic(<<"called Option::unwrap on a None value">>)
    ELSE LET w == Length_from_str(d.root.width.val)
             h == Length_from_str(d.root.height.val)
         IN  IF w.tag = "Err" \/ h.tag = "Err"
             THEN Panic(<<"called Result::unwrap on an Err value">>)
             ELSE Ok(<<w.val.num, h.val.num>>)

\* lyon::svg::path_utils::build_path: the path of the data, or a parse error
build_path(traces) ==
    LET items == PathParser(traces)
    IN  IF \E i \in 1..Len(items) : items[i].tag = "Err"
        THEN Err("ParseError")
        ELSE Ok([i \in 1..Len(items) |-> items[i].val])

----------------------------------------------------------------------------
(* StyleStrategy: the strategies the callers pass *)

BLACK == [red |-> 0, green |-> 0, blue |-> 0, alpha |-> 255]
RED == [red |-> 255, green |-> 0, blue |-> 0, alpha |-> 255]

\* MyStrategy keeps the default of the trait; CustomStrategy (the example)
\* and SvgWhole return the stroke colour, RED when there is none
color_decider(strategy, m) ==
    IF strategy = "MyStrategy" THEN Ok(BLACK)
    ELSE LET c == stroke(m)
         IN  IF IsPanic(c) THEN c
             ELSE IF c.tag = "Some" THEN Ok(c.val) ELSE Ok(RED)

\* the components component_decider inserts
component_decider(strategy) ==
    IF strategy = "CustomStrategy" THEN {"Collider::Solid"} ELSE {}

Strategies == {"MyStrategy", "CustomStrategy"}

----------------------------------------------------------------------------
(* The documents the callers load *)

StrokeOnly == <<"stroke", ":", "#ff0000", ";", "fill", ":", "none">>
FillOnly == <<"stroke", ":", "none", ";", "fill", ":", "#00ff00">>
NoStrokeKey == <<"fill", ":", "#00ff00">>
StrokeAndFill == <<"stroke", ":", "#ff0000", ";", "fill", ":", "#00ff00">>

\* M 10,20
MoveOnly == <<Cmd("M"), Num(10), Num(20)>>
\* M0,0 L10,0 L10,10 Z
Triangle ==
    <<Cmd("M"), Num(0), Num(0), Cmd("L"), Num(10), Num(0),
      Cmd("L"), Num(10), Num(10), Cmd("Z")>>
\* M0,0 C100,200 5,5 10,20
Cubic ==
    <<Cmd("M"), Num(0), Num(0),
      Cmd("C"), Num(100), Num(200), Num(5), Num(5), Num(10), Num(20)>>
\* m-30,5 h40 v-50 q7,-90 3,4
Relative ==
    <<Cmd("m"), Num(-30), Num(5), Cmd("h"), Num(40), Cmd("v"), Num(-50),
      Cmd("q"), Num(7), Num(-90), Num(3), Num(4)>>
\* M0,0 L5: the LineTo lacks its y
Malformed == <<Cmd("M"), Num(0), Num(0), Cmd("L"), Num(5)>>

\* the (style, d) attributes of the elements below <svg>
NodeKinds ==
    {<<None, None>>, <<Some(StrokeOnly), None>>, <<None, Some(MoveOnly)>>,
     <<Some(StrokeOnly), Some(MoveOnly)>>, <<Some(StrokeOnly), Some(Triangle)>>,
     <<Some(StrokeOnly), Some(Cubic)>>, <<Some(FillOnly), Some(Relative)>>,
     <<Some(NoStrokeKey), Some(Triangle)>>, <<Some(StrokeOnly), Some(Malformed)>>,
     <<Some(StrokeAndFill), Some(Triangle)>>}

RootKinds ==
    {[width |-> Some(<<"6", "4", "mm">>), height |-> Some(<<"3", "2", "mm">>)],
     [width |-> None, height |-> None]}

RootNode == [parent |-> 0, style |-> None, d |-> None]

ParentVectors(n) == {p \in [2..n -> 1..n] : \A k \in 2..n : p[k] < k}

DocsOf(n) ==
    {[root |-> r,
      nodes |-> [k \in 1..n |->
                    IF k = 1 THEN RootNode
                    ELSE [parent |-> p[k], style |-> a[k][1], d |-> a[k][2]]]] :
        r \in RootKinds, p \in ParentVectors(n), a \in [2..n -> NodeKinds]}

Docs == UNION {DocsOf(n) : n \in 1..MaxNodes}

----------------------------------------------------------------------------
(* The callers of lib.rs *)

NoEntry == [fn |-> "none", strategy |-> "none"]

InitDoc ==
    /\ text = <<>>
    /\ style = [tag |-> "Unbuilt"]
    /\ ret = NoCall
    /\ pc = "off"
    /\ doc \in Docs
    /\ entry = NoEntry
    /\ lpc = "idle"
    /\ result = None
    /\ extent = <<0, 0>>
    /\ idx = 0
    /\ world = <<>>
    /\ kids = <<>>

\* a call that runs to its end in one step
Return(fn, r) ==
    /\ lpc = "idle"
    /\ entry' = [fn |-> fn, strategy |-> "none"]
    /\ result' = r
    /\ lpc' = IF IsPanic(r) THEN "panicked" ELSE "returned"
    /\ UNCHANGED <<doc, extent, idx, world, kids>>
    /\ UNCHANGED styleVars

TakeLines == Return("take_lines_with_style", take_lines_with_style(doc))
TokenizeSvg == Return("tokenize_svg", tokenize_svg(doc))
MaxCoords == Return("max_coords", max_coords(doc))

\* the segments taken from last to first
ReversedSegs ==
    [i \in 1..Len(tokenize_svg(doc).val) |->
        tokenize_svg(doc).val[Len(tokenize_svg(doc).val) + 1 - i]]

\* the segments of the document, once tokenize_svg has succeeded
Segs == tokenize_svg(doc).val

\* an entity with its SpriteBundle: the pass it holds, the segment it was
\* built from, the path that was tessellated, the colour of its material and
\* its translation (x, y, z) / den
Entity(pass, seg, path, material, offset, den, components) ==
    [id |-> Len(world), pass |-> pass, seg |-> seg, path |-> path,
     material |-> material, translation |-> <<offset[1], offset[2], 0>>,
     den |-> den, components |-> components]

Abort(fault) ==
    /\ lpc' = "panicked"
    /\ result' = fault

Unwrapped == Panic(<<"called Result::unwrap on an Err value">>)

\* load_svg_map up to its loop: the extent of the document
LoadSvgMapStart ==
    /\ lpc = "idle"
    /\ \E strategy \in Strategies :
           entry' = [fn |-> "load_svg_map", strategy |-> strategy]
    /\ LET mc == max_coords(doc)
       IN  IF IsPanic(mc)
           THEN Abort(mc) /\ UNCHANGED <<extent, idx>>
           ELSE /\ extent' = mc.val
                /\ idx' = 1
                /\ lpc' = "loop"
                /\ UNCHANGED result
    /\ UNCHANGED <<doc, world, kids>>
    /\ UNCHANGED styleVars

\* one turn of the loop of load_svg_map: the material, the path, the stroke
\* tessellation (tess is the tessellator's verdict), the spawned entity
LoadSvgMapSegment ==
    /\ lpc = "loop" /\ entry.fn = "load_svg_map" /\ idx <= Len(Segs)
    /\ \E tess \in {"Ok", "Err"} :
           LET seg == Segs[idx]
               colour == color_decider(entry.strategy, seg.style)
               path == build_path(seg.traces)
           IN  IF IsPanic(colour)
               THEN Abort(colour) /\ UNCHANGED <<idx, world>>
               ELSE IF path.tag = "Err" \/ tess = "Err"
               THEN Abort(Unwrapped) /\ UNCHANGED <<idx, world>>
               ELSE /\ world' = Append(world,
                                  Entity("stroke", idx, path.val, Some(colour.val),
                                         <<-extent[1], -extent[2]>>, 1,
                                         component_decider(entry.strategy)))
                    /\ idx' = idx + 1
                    /\ UNCHANGED <<lpc, result>>
    /\ UNCHANGED <<doc, entry, extent, kids>>
    /\ UNCHANGED styleVars

LoadSvgMapDone ==
    /\ lpc = "loop" /\ entry.fn = "load_svg_map" /\ idx > Len(Segs)
    /\ lpc' = "done"
    /\ result' = Ok("unit")
    /\ UNCHANGED <<doc, entry, extent, idx, world, kids>>
    /\ UNCHANGED styleVars

\* load_svg up to its loop: the size of the document, its extent, the parent
LoadSvgStart ==
    /\ lpc = "idle"
    /\ entry' = [fn |-> "load_svg", strategy |-> "SvgWhole"]
    /\ LET size == max_coords_doc(doc)
           mc == max_coords(doc)
       IN  IF IsPanic(size)
           THEN Abort(size) /\ UNCHANGED <<extent, idx, world>>
           ELSE IF IsPanic(mc)
           THEN Abort(mc) /\ UNCHANGED <<extent, idx, world>>
           ELSE /\ extent' = mc.val
                /\ idx' = 1
                /\ world' = <<Entity("parent", 0, <<>>, None, <<0, 0>>, 1, {})>>
                /\ lpc' = "loop"
                /\ UNCHANGED result
    /\ UNCHANGED <<doc, kids>>
    /\ UNCHANGED styleVars

\* One turn of the loop of load_svg, from the path, the stroke colour s and
\* the fill colour f of the segment: a stroke pass when the style has a
\* stroke colour, then a fill pass when it has a fill colour.  The turn ends
\* at the first panic, with what it spawned before.
TurnFault(path, s, f, tessStroke, tessFill) ==
    IF path.tag = "Err" THEN Unwrapped
    ELSE IF IsPanic(s) THEN s
    ELSE IF s.tag = "Some" /\ tessStroke = "Err" THEN Unwrapped
    ELSE IF IsPanic(f) THEN f
    ELSE IF f.tag = "Some" /\ tessFill = "Err" THEN Unwrapped
    ELSE None

StrokePass(path, s, tessStroke, colour) ==
    IF path.tag = "Ok" /\ s.tag = "Some" /\ tessStroke = "Ok"
    THEN <<[pass |-> "stroke", material |-> Some(colour.val)]>>
    ELSE <<>>

FillPass(f, fault) ==
    IF fault = None /\ f.tag = "Some"
    THEN <<[pass |-> "fill", material |-> None]>>
    ELSE <<>>

TurnOf(path, s, f, fault, tessStroke, colour) ==
    [fault |-> fault,
     passes |-> StrokePass(path, s, tessStroke, colour) \o FillPass(f, fault)]

WholeTurn(seg, tessStroke, tessFill) ==
    TurnOf(build_path(seg.traces), stroke(seg.style), fill(seg.style),
           TurnFault(build_path(seg.traces), stroke(seg.style), fill(seg.style),
                     tessStroke, tessFill),
           tessStroke, color_decider("SvgWhole", seg.style))

\* the children spawned for the passes of a turn, after n entities
SpawnedOf(passes, n, seg, path, ext) ==
    [i \in 1..Len(passes) |->
        [id |-> n + i - 1, pass |-> passes[i].pass, seg |-> seg,
         path |-> path.val, material |-> passes[i].material,
         translation |-> <<-ext[1], -ext[2], 0>>, den |-> 2, components |-> {}]]

\* every child pushed behind the children held before
InsertedLast(spawned, before) ==
    before \o [i \in 1..Len(spawned) |-> spawned[i].id]

\* insert_children(0, &[child]) for each child in turn
InsertedFirst(spawned, before) ==
    [i \in 1..Len(spawned) |-> spawned[Len(spawned) + 1 - i].id] \o before

LoadSvgTurn(fault, spawned) ==
    /\ world' = world \o spawned
    /\ kids' = InsertedFirst(spawned, kids)
    /\ IF fault = None
       THEN idx' = idx + 1 /\ UNCHANGED <<lpc, result>>
       ELSE Abort(fault) /\ UNCHANGED idx

LoadSvgSegment ==
    /\ lpc = "loop" /\ entry.fn = "load_svg" /\ idx <= Len(Segs)
    /\ \E turn \in {WholeTurn(Segs[idx], tessStroke, tessFill) :
                       tessStroke \in {"Ok", "Err"}, tessFill \in {"Ok", "Err"}} :
           LoadSvgTurn(turn.fault,
                       SpawnedOf(turn.passes, Len(world), idx,
                                 build_path(Segs[idx].traces), extent))
    /\ UNCHANGED <<doc, entry, extent>>
    /\ UNCHANGED styleVars

LoadSvgDone ==
    /\ lpc = "loop" /\ entry.fn = "load_svg" /\ idx > Len(Segs)
    /\ lpc' = "done"
    /\ result' = Ok(world[1].id)
    /\ UNCHANGED <<doc, entry, extent, idx, world, kids>>
    /\ UNCHANGED styleVars

NextDoc ==
    \/ TakeLines
    \/ TokenizeSvg
    \/ MaxCoords
    \/ LoadSvgMapStart
    \/ LoadSvgMapSegment
    \/ LoadSvgMapDone
    \/ LoadSvgStart
    \/ LoadSvgSegment
    \/ LoadSvgDone

SpecDoc == InitDoc /\ [][NextDoc]_vars

----------------------------------------------------------------------------
(* What the documents say, read off the tree alone *)

Called(fn) == entry.fn = fn

\* the elements in document order: an element before what it holds, the
\* children of an element from first to last
DocumentOrder(d) == descendants(d)

HasStyleAndData(d, k) == d.nodes[k].style.tag = "Some" /\ d.nodes[k].d.tag = "Some"

\* the elements that carry both attributes, in document order
StyledPaths(d) ==
    LET Both(k) == HasStyleAndData(d, k)
    IN  SelectSeq(DocumentOrder(d), Both)

\* the commands of path data that is well formed
CommandsOf(traces) == [i \in 1..Len(PathParser(traces)) |-> PathParser(traces)[i].val]

WellFormedData(traces) ==
    \A i \in 1..Len(PathParser(traces)) : PathParser(traces)[i].tag = "Ok"

\* every X operand and every Y operand of a command, control points included
XOperands(n) ==
    CASE n.cmd \in {"MoveTo", "LineTo", "HorizontalLineTo"} -> {n.x}
      [] n.cmd = "Quadratic" -> {n.x1, n.x}
      [] n.cmd = "CurveTo" -> {n.x1, n.x2, n.x}
      [] OTHER -> {}

YOperands(n) ==
    CASE n.cmd \in {"MoveTo", "LineTo", "VerticalLineTo"} -> {n.y}
      [] n.cmd = "Quadratic" -> {n.y1, n.y}
      [] n.cmd = "CurveTo" -> {n.y1, n.y2, n.y}
      [] OTHER -> {}

MaxAbs(S) == IF S = {} THEN 0 ELSE CHOOSE m \in {Abs(v) : v \in S} : \A v \in S : Abs(v) <= m

DataNodes(d) == {k \in 1..Len(d.nodes) : d.nodes[k].d.tag = "Some"}

\* the operands of every command of every element that carries path data
AllX(d) ==
    UNION {UNION {XOperands(CommandsOf(d.nodes[k].d.val)[i]) :
                     i \in 1..Len(CommandsOf(d.nodes[k].d.val))} : k \in DataNodes(d)}

AllY(d) ==
    UNION {UNION {YOperands(CommandsOf(d.nodes[k].d.val)[i]) :
                     i \in 1..Len(CommandsOf(d.nodes[k].d.val))} : k \in DataNodes(d)}

----------------------------------------------------------------------------
(* C8: extraction returns, in document order, exactly the elements that   *)
(* carry both a style and path data; an element without 'd' is left out,   *)
(* and one with 'd' but without 'style' is left out without a fault.       *)
C8_ExtractsStyledPaths ==
    Called("take_lines_with_style") =>
        result = Ok([i \in 1..Len(StyledPaths(doc)) |->
                        <<doc.nodes[StyledPaths(doc)[i]].style.val,
                          doc.nodes[StyledPaths(doc)[i]].d.val>>])

(* C9: the extent max_coords returns is (max |x|, max |y|) over every      *)
(* coordinate operand of every command of every segment, the control       *)
(* points of quadratic and cubic curves included; (10,20) for the single   *)
(* command M 10,20 and (0,0) for a document without commands.              *)
C9_ExtentCoversEveryOperand ==
    (Called("max_coords") /\ result.tag = "Ok") =>
        result.val = <<MaxAbs(AllX(doc)), MaxAbs(AllY(doc))>>

(* C10: a segment whose path data is malformed, or whose geometry the      *)
(* tessellator refuses, is skipped: load_svg_map and load_svg do not       *)
(* abort, and they end with the geometry of every other segment.           *)

\* nothing but path data can be wrong with the document: the <svg> element
\* has its size, and every element with path data has a style that holds a
\* stroke and a fill
SoundButForPaths(d) ==
    /\ ~IsPanic(max_coords_doc(d))
    /\ \A k \in DataNodes(d) :
           /\ d.nodes[k].style.tag = "Some"
           /\ ~IsPanic(SvgStyle_from(d.nodes[k].style.val))
           /\ {<<"stroke">>, <<"fill">>} \subseteq DOMAIN SvgStyle_from(d.nodes[k].style.val).val

\* the segments (by their place among the extracted lines) with sound data
SoundSegments(d) ==
    {i \in 1..Len(StyledPaths(d)) : WellFormedData(d.nodes[StyledPaths(d)[i]].d.val)}

C10_SegmentErrorsIsolated ==
    ((Called("load_svg_map") \/ Called("load_svg")) /\ SoundButForPaths(doc)) =>
        /\ lpc # "panicked"
        /\ lpc = "done" =>
               \A i \in SoundSegments(doc) :
                   \E e \in 1..Len(world) : world[e].seg = i

----------------------------------------------------------------------------
(* What a loaded document should hold, read off the style text *)

\* the paints that are a colour, with the colour they name
PaintedLiterals ==
    {<<<<"#000000">>, Rgb(0, 0, 0)>>, <<<<"#ff0000">>, Rgb(255, 0, 0)>>,
     <<<<"#00ff00">>, Rgb(0, 255, 0)>>, <<<<"red">>, Rgb(255, 0, 0)>>}

\* the colours the style text gives to the key: none when the key is
\* missing or its paint is not a colour
ColoursOf(styleText, key) ==
    {c[2] : c \in {p \in PaintedLiterals :
                      \E i \in 1..Len(Segments(styleText)) :
                          /\ HasColon(Segments(styleText)[i])
                          /\ KeyText(Segments(styleText)[i]) = <<key>>
                          /\ ValueText(Segments(styleText)[i]) = p[1]}}

ColourExists(styleText, key) == ColoursOf(styleText, key) # {}

\* the style text of the i-th path segment of the document
StyleTextOf(d, i) == d.nodes[StyledPaths(d)[i]].style.val

\* the geometry records of a pass that the load produced for segment i
Records(pass, i) == {e \in 1..Len(world) : world[e].pass = pass /\ world[e].seg = i}

Loaded == (Called("load_svg_map") \/ Called("load_svg")) /\ lpc = "done"

ReturnsStrokeColour == entry.strategy \in {"CustomStrategy", "SvgWhole"}

(* C11: once a load (load_svg_map or load_svg) has ended, every path       *)
(* segment has one stroke record if its style has a stroke colour and none *)
(* otherwise, and one fill record if its style has a fill colour and none  *)
(* otherwise; under a strategy that returns the parsed stroke colour the   *)
(* material of the stroke record is that colour, opaque.                   *)
C11_PassesFollowColours ==
    Loaded =>
        \A i \in 1..Len(StyledPaths(doc)) :
            /\ Cardinality(Records("stroke", i)) =
                   IF ColourExists(StyleTextOf(doc, i), "stroke") THEN 1 ELSE 0
            /\ Cardinality(Records("fill", i)) =
                   IF ColourExists(StyleTextOf(doc, i), "fill") THEN 1 ELSE 0
            /\ ReturnsStrokeColour =>
                   \A e \in Records("stroke", i) :
                       \E c \in ColoursOf(StyleTextOf(doc, i), "stroke") :
                           world[e].material = Some(Rgba(c, 255))

----------------------------------------------------------------------------
(* The order of a load *)

InLoad == (Called("load_svg_map") \/ Called("load_svg")) /\ idx >= 1

\* the entities that hold a stroke or a fill pass, in the order of spawning
PassEntities ==
    LET IsPass(e) == e.pass # "parent"
    IN  SelectSeq(world, IsPass)

\* the commands of the i-th path segment of the document, in their order
DataOf(d, i) == CommandsOf(d.nodes[StyledPaths(d)[i]].d.val)

\* the extent of the whole document as the load computes it
WholeExtent == max_coords(doc).val

\* the translation of a record under the extent ext
TranslationUnder(ext) == <<-ext[1], -ext[2], 0>>

\* while a load runs and after it: the extent is that of the whole
\* document, every record made so far used it, the records follow the
\* segments in document order up to the segment in hand, and each record
\* holds the commands of its segment in their order
OrderedSoFar ==
    InLoad =>
        LET whole == WholeExtent
            made == PassEntities
        IN  /\ extent = whole
            /\ \A e \in 1..Len(made) :
                   /\ made[e].translation = TranslationUnder(whole)
                   /\ made[e].seg \in 1..idx
                   /\ lpc \in {"loop", "done"} => made[e].seg < idx
                   /\ made[e].path = DataOf(doc, made[e].seg)
                   /\ e > 1 => made[e - 1].seg <= made[e].seg

\* the extent is set once, before any record is made, and the segments are
\* taken one at a time, each record being of the segment in hand
OneSegmentAtATime ==
    /\ extent' # extent => (idx = 0 /\ world = <<>> /\ idx' = 1)
    /\ idx' # idx => idx' = idx + 1
    /\ \A e \in (Len(world) + 1)..Len(world') :
           world'[e].pass # "parent" => (idx >= 1 /\ world'[e].seg = idx)

(* C12: in load_svg_map and load_svg the extent is computed over the whole *)
(* document before the first segment is processed and never changes after, *)
(* every segment's record uses that same extent, the segments are          *)
(* processed one at a time in document order, and the commands of each     *)
(* segment are consumed in their original order.                           *)
C12_ExtentFirstThenInOrder == [](OrderedSoFar) /\ [][OneSegmentAtATime]_vars

\* a load that has ended with the records of two segments of different
\* data, the first made under an extent that its own data does not reach
C12_Witness ==
    /\ Loaded
    /\ \E a, b \in 1..Len(PassEntities) :
           /\ PassEntities[a].seg = 1 /\ PassEntities[b].seg = 2
           /\ PassEntities[a].path # PassEntities[b].path
           /\ PassEntities[a].translation = PassEntities[b].translation
           /\ Fold(<<0, 0>>, PassEntities[a].path) # extent

----------------------------------------------------------------------------
(* The hierarchy load_svg builds *)

Parents == {e \in 1..Len(world) : world[e].pass = "parent"}

\* the ids of the pass entities, from the last spawned to the first
ReversePassIds ==
    [i \in 1..Len(PassEntities) |-> PassEntities[Len(PassEntities) + 1 - i].id]

(* C13: a call of load_svg spawns exactly one parent entity and returns    *)
(* it; every entity spawned for a stroke or fill pass is a child of that   *)
(* parent and nothing else is, so the parent has as many children as       *)
(* passes were produced; the children are held in the reverse of the       *)
(* order in which their passes were produced.                              *)
C13_OneParentChildrenReversed ==
    (Called("load_svg") /\ lpc \in {"loop", "done"}) =>
        /\ Cardinality(Parents) = 1
        /\ \A e, f \in 1..Len(world) : world[e].id = world[f].id => e = f
        /\ lpc = "done" => \E p \in Parents : result = Ok(world[p].id)
        /\ Len(kids) = Len(PassEntities)
        /\ kids = ReversePassIds

\* load_svg has returned after three passes, the stroke and the fill of
\* one segment among them, and the first child is the last pass produced
C13_Witness ==
    /\ Called("load_svg") /\ lpc = "done"
    /\ Len(kids) >= 3
    /\ \E a, b \in 1..Len(PassEntities) :
           /\ a < b
           /\ PassEntities[a].seg = PassEntities[b].seg
           /\ PassEntities[a].pass = "stroke" /\ PassEntities[b].pass = "fill"
    /\ kids[1] = PassEntities[Len(PassEntities)].id
    /\ kids[Len(kids)] = PassEntities[1].id

====
